---- MODULE Spec2Model ----
(***************************************************************************)
(* Planning board of obsidian-proletarian-wizard: the bucketing of todos   *)
(* into columns (PlanningComponent.getTodayColumns / getColumns), the      *)
(* drop-target commands (moveToDate, removeDate, moveToDateAndStatus) and  *)
(* the status box commands (TodoStatusComponent onclick / status menu).    *)
(*                                                                         *)
(* Dates are day numbers counted from EpochYear-EpochMonth-01.  A date     *)
(* attribute of a todo is the text "YYYY-MM-DD", modelled as the tuple     *)
(* <<y, m, d>> (<<>> when the attribute is absent); ToISODate and FromISO  *)
(* convert between the two through the calendar.                           *)
(***************************************************************************)
EXTENDS Integers, Sequences, FiniteSets, TLC

VARIABLES today, settings, planningSettings, objs, todos, doc, cmds, warns,
          todayColumns, columns, updates, budget, dirty

vars == <<today, settings, planningSettings, objs, todos, doc, cmds, warns,
          todayColumns, columns, updates, budget, dirty>>

(***************************************************************************)
(* Bounds of the model                                                     *)
(***************************************************************************)
\* first explored value of today: day 28 is 2023-12-29
FirstToday == 28
\* number of consecutive values of "today" that are explored
NumTodays == 4
\* due dates are explored on every day from today-2 to today+NearDays
NearDays == 37
\* number of todo-index update notifications per behaviour
MaxUpdates == 1
\* number of user commands (drops, clicks, menu choices) per behaviour
MaxCmds == 1

(***************************************************************************)
(* Calendar (luxon DateTime restricted to local midnights)                 *)
(***************************************************************************)
\* day 0 is 2023-12-01, a Friday (ISO weekday 5; 1 = Monday .. 7 = Sunday)
Epoch == [year |-> 2023, month |-> 12, weekday |-> 5]
EpochYear == Epoch.year
EpochMonth == Epoch.month
EpochWeekday == Epoch.weekday
\* calendar months covered by the model, numbered from the epoch month
CalMonths == 0 .. 8

NoDate == -1

IsLeap(y) == (y % 4 = 0 /\ y % 100 # 0) \/ y % 400 = 0

DaysInMonth(y, m) ==
  IF m = 2 THEN (IF IsLeap(y) THEN 29 ELSE 28)
  ELSE IF m \in {4, 6, 9, 11} THEN 30 ELSE 31

YearOfMonth(k) == EpochYear + ((EpochMonth - 1 + k) \div 12)
MonthOfMonth(k) == ((EpochMonth - 1 + k) % 12) + 1

RECURSIVE MonthStartDay(_)
MonthStartDay(k) ==
  IF k = 0 THEN 0
  ELSE MonthStartDay(k - 1) + DaysInMonth(YearOfMonth(k - 1), MonthOfMonth(k - 1))

MonthStart == [k \in CalMonths |-> MonthStartDay(k)]

LastDay == MonthStart[8] - 1

\* index of the calendar month holding day d
MonthIndex(d) == CHOOSE k \in CalMonths \ {8} : MonthStart[k] <= d /\ d < MonthStart[k + 1]

\* DateTime.weekday
Weekday(d) == ((d + EpochWeekday - 1) % 7) + 1

\* DateTime.toISODate(): the text YYYY-MM-DD
ToISODate(d) ==
  LET k == MonthIndex(d)
  IN <<YearOfMonth(k), MonthOfMonth(k), d - MonthStart[k] + 1>>

\* DateTime.fromISO(text) followed by the isValid test: NoDate when the text
\* is not a date of the calendar
FromISO(v) ==
  IF Len(v) # 3 THEN NoDate
  ELSE LET k == (v[1] - EpochYear) * 12 + v[2] - EpochMonth
       IN IF /\ v[2] >= 1 /\ v[2] <= 12
             /\ k \in CalMonths \ {8}
             /\ v[3] >= 1 /\ v[3] <= DaysInMonth(v[1], v[2])
          THEN MonthStart[k] + v[3] - 1
          ELSE NoDate

\* DateTime.startOf("month").plus({months: n})
StartOfMonthPlus(d, n) == MonthStart[MonthIndex(d) + n]

\* DateTime.set({weekday: w}): the day of the same ISO week with weekday w
SetWeekday(d, w) == d - Weekday(d) + w

(***************************************************************************)
(* Todo model                                                              *)
(***************************************************************************)
Statuses == {"Todo", "InProgress", "AttentionRequired", "Delegated", "Complete", "Canceled"}
DoneStatuses == {"Complete", "Canceled"}

NoAttributes ==
  [defined |-> FALSE, due |-> <<>>, completed |-> <<>>, selected |-> FALSE, started |-> <<>>]

\* findTodoDate(todo, attribute)
FindTodoDate(todo, attribute) ==
  IF ~todo.attributes.defined THEN NoDate
  ELSE LET attr == todo.attributes[attribute]
       IN IF attr # <<>> THEN FromISO(attr) ELSE NoDate

\* filteredTodos: the todos of the snapshot that the matcher accepts
FilteredTodos == SelectSeq(todos, LAMBDA r : objs[r].matches)

DateIsInRange(date, from, to) ==
  date # NoDate /\ (from = NoDate \/ date >= from) /\ (to = NoDate \/ date < to)

\* TodoInRange with the selected marker pinning a todo whatever its status
TodoInRangePinned(todo, from, to, includeSelected) ==
  LET isSelected == todo.attributes.defined /\ todo.attributes.selected
      dueDate == FindTodoDate(todo, "due")
  IN DateIsInRange(dueDate, from, to) \/ (includeSelected /\ isSelected)

TodoInRange(todo, from, to, includeSelected) ==
  LET isDone == todo.status = "Complete" \/ todo.status = "Canceled"
      isSelected == todo.attributes.defined /\ todo.attributes.selected
      dueDate == FindTodoDate(todo, "due")
      completedDate == FindTodoDate(todo, "completed")
      dueDateIsInRange == DateIsInRange(dueDate, from, to)
      completedDateIsInRange == DateIsInRange(completedDate, from, to)
  IN dueDateIsInRange
     \/ (includeSelected /\ isSelected /\ ((isDone /\ completedDateIsInRange) \/ ~isDone))

\* GetTodosByDate with includeSelected switched on for every caller
GetTodosByDateSelected(from, to, includeSelected) ==
  SelectSeq(FilteredTodos,
            LAMBDA r : objs[r].attributes.defined /\ TodoInRange(objs[r], from, to, TRUE))

GetTodosByDate(from, to, includeSelected) ==
  SelectSeq(FilteredTodos,
            LAMBDA r : objs[r].attributes.defined
                       /\ TodoInRange(objs[r], from, to, includeSelected))

GetTodosWithNoDate ==
  SelectSeq(FilteredTodos,
            LAMBDA r : /\ FindTodoDate(objs[r], "due") = NoDate
                       /\ objs[r].attributes.defined
                       /\ ~objs[r].attributes.selected
                       /\ objs[r].status # "Canceled" /\ objs[r].status # "Complete")

GetTodosByDateAndStatus(from, to, status) ==
  SelectSeq(GetTodosByDate(from, to, TRUE), LAMBDA r : objs[r].status \in status)

(***************************************************************************)
(* Columns                                                                 *)
(***************************************************************************)
NoDrop == [kind |-> "none", date |-> NoDate, status |-> "Todo"]
MoveToDate(date) == [kind |-> "moveToDate", date |-> date, status |-> "Todo"]
RemoveDate == [kind |-> "removeDate", date |-> NoDate, status |-> "Todo"]
MoveToDateAndStatus(date, status) ==
  [kind |-> "moveToDateAndStatus", date |-> date, status |-> status]

Title(text, n, start, end) == [text |-> text, n |-> n, start |-> start, end |-> end]

\* the props handed to PlanningTodoColumn; group, from and to record which
\* loop produced the column and the range its todos were queried with
TodoColumn(group, title, from, to, columnTodos, hideIfEmpty, onTodoDropped, substyle) ==
  [group |-> group, title |-> title, from |-> from, to |-> to, todos |-> columnTodos,
   hideIfEmpty |-> hideIfEmpty, onTodoDropped |-> onTodoDropped, substyle |-> substyle]

GetWipStyle(columnTodos) ==
  IF planningSettings.wipLimit.isLimited
  THEN (IF Len(columnTodos) > planningSettings.wipLimit.dailyLimit THEN "wip-exceeded" ELSE "")
  ELSE ""

GetTodayColumns ==
  LET tomorrow == today + 1
  IN << TodoColumn("today", Title("Todo", 0, NoDate, NoDate), today, tomorrow,
                   GetTodosByDateAndStatus(today, tomorrow, {"Todo"}),
                   FALSE, MoveToDateAndStatus(today, "Todo"), "today"),
        TodoColumn("today", Title("In progress", 0, NoDate, NoDate), today, tomorrow,
                   GetTodosByDateAndStatus(today, tomorrow,
                                           {"AttentionRequired", "Delegated", "InProgress"}),
                   FALSE, MoveToDateAndStatus(today, "InProgress"), "today"),
        TodoColumn("today", Title("Done", 0, NoDate, NoDate), today, tomorrow,
                   GetTodosByDateAndStatus(today, tomorrow, {"Canceled", "Complete"}),
                   FALSE, MoveToDateAndStatus(today, "Complete"), "today") >>

DailyIterations == 6
WeeklyIterations == 4
MonthlyIterations == 3
FirstWeekEndDay == 6

LocalDay(d) == ((Weekday(d) - settings.firstWeekday + 7) % 7) + 1

\* DailyBrackets with a skipped weekend day not using up an iteration
RECURSIVE DailyBracketsSkipFree(_, _)
DailyBracketsSkipFree(i, dayStart) ==
  IF i >= DailyIterations THEN <<>>
  ELSE LET dayEnd == dayStart + 1
           localDay == LocalDay(dayStart)
       IN IF ~settings.showWeekEnds /\ localDay >= FirstWeekEndDay
          THEN DailyBracketsSkipFree(i, dayEnd)
          ELSE LET label == IF i = 0 THEN Title("Tomorrow", 0, NoDate, NoDate)
                            ELSE Title("cccc dd/MM", 0, dayStart, NoDate)
                   columnTodos == GetTodosByDate(dayStart, dayEnd, FALSE)
               IN <<TodoColumn("daily", label, dayStart, dayEnd, columnTodos,
                               planningSettings.hideEmpty, MoveToDate(dayStart),
                               GetWipStyle(columnTodos))>>
                  \o DailyBracketsSkipFree(i + 1, dayEnd)

RECURSIVE DailyBrackets(_, _)
DailyBrackets(i, dayStart) ==
  IF i >= DailyIterations THEN <<>>
  ELSE LET dayEnd == dayStart + 1
           localDay == LocalDay(dayStart)
       IN IF ~settings.showWeekEnds /\ localDay >= FirstWeekEndDay
          THEN DailyBrackets(i + 1, dayEnd)
          ELSE LET label == IF i = 0 THEN Title("Tomorrow", 0, NoDate, NoDate)
                            ELSE Title("cccc dd/MM", 0, dayStart, NoDate)
                   columnTodos == GetTodosByDate(dayStart, dayEnd, FALSE)
               IN <<TodoColumn("daily", label, dayStart, dayEnd, columnTodos,
                               planningSettings.hideEmpty, MoveToDate(dayStart),
                               GetWipStyle(columnTodos))>>
                  \o DailyBrackets(i + 1, dayEnd)

StartOfThisWeek ==
  LET s == SetWeekday(today, settings.firstWeekday)
  IN IF s > today THEN s - 7 ELSE s

RECURSIVE WeeklyBrackets(_, _)
WeeklyBrackets(i, weekStart) ==
  IF i >= WeeklyIterations THEN <<>>
  ELSE LET weekEnd == weekStart + 7
           label == IF i = 0 THEN Title("Next week", 0, NoDate, NoDate)
                    ELSE Title("Week +", i + 1, weekStart, weekEnd - 1)
           columnTodos == GetTodosByDate(weekStart, weekEnd, FALSE)
       IN <<TodoColumn("weekly", label, weekStart, weekEnd, columnTodos,
                       planningSettings.hideEmpty, MoveToDate(weekStart),
                       GetWipStyle(columnTodos))>>
          \o WeeklyBrackets(i + 1, weekEnd)

RECURSIVE MonthlyBrackets(_)
MonthlyBrackets(i) ==
  IF i >= MonthlyIterations THEN <<>>
  ELSE LET monthStart == StartOfMonthPlus(today, 1 + i)
           monthEnd == StartOfMonthPlus(today, 2 + i)
           label == IF i = 0 THEN Title("Next month", 0, NoDate, NoDate)
                    ELSE Title("Month +", i + 1, monthStart, monthEnd - 1)
           columnTodos == GetTodosByDate(monthStart, monthEnd, FALSE)
       IN <<TodoColumn("monthly", label, monthStart, monthEnd, columnTodos,
                       planningSettings.hideEmpty, MoveToDate(monthStart),
                       GetWipStyle(columnTodos))>>
          \o MonthlyBrackets(i + 1)

LaterColumn ==
  LET monthStart == StartOfMonthPlus(today, 1 + MonthlyIterations)
  IN TodoColumn("later", Title("Later", 0, NoDate, NoDate), monthStart, NoDate,
                GetTodosByDate(monthStart, NoDate, FALSE),
                planningSettings.hideEmpty, MoveToDate(monthStart), "")

GetColumns ==
  << TodoColumn("backlog", Title("Backlog", 0, NoDate, NoDate), NoDate, NoDate,
                GetTodosWithNoDate, FALSE, RemoveDate, ""),
     TodoColumn("past", Title("Past", 0, NoDate, NoDate), NoDate, today,
                SelectSeq(GetTodosByDate(NoDate, today, FALSE),
                          LAMBDA r : objs[r].status # "Canceled" /\ objs[r].status # "Complete"),
                TRUE, NoDrop, "") >>
  \o DailyBrackets(0, today + 1)
  \o WeeklyBrackets(0, StartOfThisWeek + 7)
  \o MonthlyBrackets(0)
  \o <<LaterColumn>>

(***************************************************************************)
(* Initial states                                                          *)
(***************************************************************************)
Todays == FirstToday .. (FirstToday + NumTodays - 1)

\* texts a date attribute can hold for a todo seen on day t: absent, a day
\* near t, the first or last days of a month (30 and 31 are no dates of the
\* shorter months)
NearDates(t) == {ToISODate(d) : d \in (t - 2) .. (t + NearDays)}
MonthEdgeDates ==
  {<<YearOfMonth(k), MonthOfMonth(k), d>> : k \in 0 .. 6, d \in {1, 30, 31}}
DueTexts(t) == {<<>>} \cup NearDates(t) \cup MonthEdgeDates
CompletedTexts(t) == {<<>>, ToISODate(t), ToISODate(t - 1)}

TodoItem(id, status, attributes, matches) ==
  [id |-> id, status |-> status, attributes |-> attributes, matches |-> matches]

Attributes(due, completed, selected, started) ==
  [defined |-> TRUE, due |-> due, completed |-> completed, selected |-> selected,
   started |-> started]

DefaultPlanningSettings ==
  [hideEmpty |-> TRUE, wipLimit |-> [isLimited |-> TRUE, dailyLimit |-> 0]]

\* the todos a mounted board can start from on day t: any status, any due
\* and completed text, selected or not; one todo without attributes; one todo
\* the search phrase rejects
TodoShapes(t) ==
  {TodoItem("todo-1", status, Attributes(due, completed, selected, <<>>), TRUE) :
     status \in Statuses, due \in DueTexts(t), completed \in CompletedTexts(t),
     selected \in BOOLEAN}
  \cup {TodoItem("todo-1", status, NoAttributes, TRUE) : status \in Statuses}
  \cup {TodoItem("todo-1", status, Attributes(ToISODate(t + 1), <<>>, TRUE, <<>>), FALSE) :
          status \in Statuses}

InitColumns ==
  /\ today \in Todays
  /\ settings \in [firstWeekday : 1 .. 7, showWeekEnds : BOOLEAN, trackStartTime : {FALSE}]
  /\ planningSettings = DefaultPlanningSettings
  /\ \E todo \in TodoShapes(today) : objs = <<todo>>
  /\ todos = <<1>>
  /\ doc = objs
  /\ cmds = <<>>
  /\ warns = <<>>
  /\ todayColumns = <<>>
  /\ columns = <<>>
  /\ updates = 0
  /\ budget = 0
  /\ dirty = FALSE

\* the first render of the mounted component:
\* Array.from(getTodayColumns()), Array.from(getColumns())
Render ==
  /\ columns = <<>>
  /\ todayColumns' = GetTodayColumns
  /\ columns' = GetColumns
  /\ UNCHANGED <<today, settings, planningSettings, objs, todos, doc, cmds, warns, updates,
                 budget, dirty>>

NextColumns == Render

SpecColumns == InitColumns /\ [][NextColumns]_vars

(***************************************************************************)
(* Commands                                                                *)
(***************************************************************************)
\* an id no todo of the snapshot has
UnknownId == "todo-x"

NoRef == 0

\* findTodo(todoId): the first todo of the snapshot with that id
FindTodo(todoId) ==
  LET found == SelectSeq(todos, LAMBDA r : objs[r].id = todoId)
  IN IF found = <<>> THEN NoRef ELSE Head(found)

\* requests to the persistence collaborator (FileOperations)
UpdateAttributeAsync(attribute, value) ==
  [op |-> "updateAttribute", attribute |-> attribute, value |-> value, status |-> ""]
RemoveAttributeAsync(attribute) ==
  [op |-> "removeAttribute", attribute |-> attribute, value |-> <<>>, status |-> ""]
\* updateTodoStatus(todo, completedDateAttribute) writes the status the todo
\* object holds when the call is made
UpdateTodoStatus(todo) ==
  [op |-> "updateTodoStatus", attribute |-> "completed", value |-> <<>>,
   status |-> todo.status]

\* a command: the handler that ran, what it was given, the requests it has
\* issued so far and the outcome of every completed one; column is the place
\* on the board of the column a drop was released on
Command(kind, todoId, todo, date, status, prev, prevented, issued) ==
  [kind |-> kind, todoId |-> todoId, todo |-> todo, date |-> date, status |-> status,
   prev |-> prev, prevented |-> prevented, issued |-> issued, results |-> <<>>,
   column |-> 0]

Pending(c) == Len(cmds[c].issued) = Len(cmds[c].results) + 1

\* the rendered board: the Today group, then the main sequence
Board == todayColumns \o columns

\* PlanningTodoColumn draws nothing for a column that hides when empty and
\* holds no todo
Rendered(col) == ~(col.hideIfEmpty /\ col.todos = <<>>)

\* the handler moveToDate(date) returns
OnColumn(i, cmd) == [cmd EXCEPT !.column = i]

DropMoveToDate(i, date, todoId) ==
  LET todo == FindTodo(todoId)
  IN IF todo = NoRef
     THEN /\ warns' = Append(warns, todoId)
          /\ cmds' = Append(cmds, OnColumn(i, Command("moveToDate", todoId, NoRef, date, "", "", FALSE, <<>>)))
          /\ UNCHANGED objs
     ELSE /\ cmds' = Append(cmds, OnColumn(i, Command("moveToDate", todoId, todo, date, "", "", FALSE,
                                          <<UpdateAttributeAsync("due", ToISODate(date))>>)))
          /\ UNCHANGED <<warns, objs>>

\* the handler removeDate() returns
DropRemoveDate(i, todoId) ==
  LET todo == FindTodo(todoId)
  IN IF todo = NoRef
     THEN /\ cmds' = Append(cmds, OnColumn(i, Command("removeDate", todoId, NoRef, NoDate, "", "", FALSE, <<>>)))
          /\ UNCHANGED <<warns, objs>>
     ELSE /\ cmds' = Append(cmds, OnColumn(i, Command("removeDate", todoId, todo, NoDate, "", "", FALSE,
                                          <<RemoveAttributeAsync("due")>>)))
          /\ UNCHANGED <<warns, objs>>

\* the handler moveToDateAndStatus(date, status) returns, up to its first request
DropMoveToDateAndStatus(i, date, status, todoId) ==
  LET todo == FindTodo(todoId)
  IN IF todo = NoRef
     THEN /\ warns' = Append(warns, todoId)
          /\ cmds' = Append(cmds, OnColumn(i, Command("moveToDateAndStatus", todoId, NoRef, date, status,
                                          "", FALSE, <<>>)))
          /\ UNCHANGED objs
     ELSE /\ objs' = [objs EXCEPT ![todo].status = status]
          /\ cmds' = Append(cmds, OnColumn(i, Command("moveToDateAndStatus", todoId, todo, date, status,
                                          objs[todo].status, FALSE,
                                          <<UpdateAttributeAsync("due", ToISODate(date))>>)))
          /\ UNCHANGED warns

\* the todos shown on the rendered board, each with its status box
Displayed == UNION {{Board[i].todos[j] : j \in DOMAIN Board[i].todos} : i \in DOMAIN Board}

\* ids a dragged item can carry: the id of a todo shown on the board, or an
\* id the snapshot does not hold
DragIds == {objs[r].id : r \in Displayed} \cup {UnknownId}

\* a dragged item is released on a column that has a drop target:
\* onTodoDropped(todoId)
Drop ==
  /\ Len(cmds) < budget
  /\ \E i \in DOMAIN Board, todoId \in DragIds :
       LET h == Board[i].onTodoDropped
       IN /\ Rendered(Board[i])
          /\ h.kind # "none"
          /\ CASE h.kind = "moveToDate" -> DropMoveToDate(i, h.date, todoId)
               [] h.kind = "removeDate" -> DropRemoveDate(i, todoId)
               [] h.kind = "moveToDateAndStatus" ->
                    DropMoveToDateAndStatus(i, h.date, h.status, todoId)
  /\ UNCHANGED <<today, settings, planningSettings, todos, doc, todayColumns, columns, updates,
                 budget, dirty>>


\* ToggleStatus with Canceled not taken for a done status
ToggleStatusCompleteOnly(status) ==
  LET wasCompleted == status = "Complete"
  IN IF wasCompleted THEN "Todo" ELSE "Complete"

\* the status onclick requests
ToggleStatus(status) ==
  LET wasCompleted == status = "Complete" \/ status = "Canceled"
  IN IF wasCompleted THEN "Todo" ELSE "Complete"

\* TodoStatusComponent.onclick
Click ==
  /\ Len(cmds) < budget
  /\ \E r \in Displayed, defaultPrevented \in BOOLEAN :
       IF defaultPrevented
       THEN /\ cmds' = Append(cmds, Command("toggle", objs[r].id, r, NoDate, "",
                                            objs[r].status, TRUE, <<>>))
            /\ UNCHANGED objs
       ELSE LET status == ToggleStatus(objs[r].status)
                todo == [objs[r] EXCEPT !.status = status]
            IN /\ objs' = [objs EXCEPT ![r] = todo]
               /\ cmds' = Append(cmds, Command("toggle", todo.id, r, NoDate, status,
                                               objs[r].status, FALSE, <<UpdateTodoStatus(todo)>>))
  /\ UNCHANGED <<today, settings, planningSettings, todos, doc, warns, todayColumns, columns,
                 updates, budget, dirty>>

\* an item of the status menu is chosen (addChangeStatusMenuItem's onClick)
MenuItemClick ==
  /\ Len(cmds) < budget
  /\ \E r \in Displayed, status \in Statuses :
       LET todo == [objs[r] EXCEPT !.status = status]
       IN /\ objs' = [objs EXCEPT ![r] = todo]
          /\ cmds' = Append(cmds, Command("setStatus", todo.id, r, NoDate, status,
                                          objs[r].status, FALSE, <<UpdateTodoStatus(todo)>>))
  /\ UNCHANGED <<today, settings, planningSettings, todos, doc, warns, todayColumns, columns,
                 updates, budget, dirty>>

\* what the persistence collaborator does to the document's todo when a
\* request completes
ApplyRequest(d, req) ==
  CASE req.op = "updateAttribute" ->
         [d EXCEPT !.attributes = [@ EXCEPT ![req.attribute] = req.value]]
    [] req.op = "removeAttribute" ->
         [d EXCEPT !.attributes = [@ EXCEPT ![req.attribute] = <<>>]]
    [] req.op = "updateTodoStatus" ->
         LET wasDone == d.status \in DoneStatuses
             isDone == req.status \in DoneStatuses
             completed == IF isDone /\ ~wasDone THEN ToISODate(today)
                          ELSE IF ~isDone /\ wasDone THEN <<>>
                          ELSE d.attributes.completed
         IN [d EXCEPT !.status = req.status,
                      !.attributes = [@ EXCEPT ![req.attribute] = completed]]

\* ThenRuns with the callback run whatever the outcome, as .finally would
ThenRunsAlways(result) == TRUE

\* a .then(callback) runs its callback only when the promise is fulfilled
ThenRuns(result) == result = "ok"

\* StartedWanted without the trackStartTime setting
StartedWantedUntracked(cmd) ==
  /\ objs[cmd.todo].attributes.started = <<>>
  /\ cmd.status = "InProgress"

\* the third step of moveToDateAndStatus asks for a started date
StartedWanted(cmd) ==
  /\ settings.trackStartTime
  /\ objs[cmd.todo].attributes.started = <<>>
  /\ cmd.status = "InProgress"

\* the requests the .then callbacks of a command issue once its n-th request
\* has ended with result
Continuation(cmd, n, result) ==
  IF cmd.kind # "moveToDateAndStatus" \/ ~ThenRuns(result) THEN <<>>
  ELSE IF n = 1 THEN <<UpdateTodoStatus(objs[cmd.todo])>>
  ELSE IF n = 2 /\ StartedWanted(cmd)
       THEN <<UpdateAttributeAsync("started", ToISODate(today))>>
  ELSE <<>>

\* the pending request of command c is written to the document
Resolve(c) ==
  /\ Pending(c)
  /\ LET cmd == cmds[c]
         n == Len(cmd.issued)
         req == cmd.issued[n]
     IN /\ doc' = [i \in DOMAIN doc |->
                     IF doc[i].id = cmd.todoId THEN ApplyRequest(doc[i], req) ELSE doc[i]]
        /\ cmds' = [cmds EXCEPT ![c] =
                      [cmd EXCEPT !.results = Append(@, "ok"),
                                  !.issued = @ \o Continuation(cmd, n, "ok")]]
  /\ dirty' = TRUE
  /\ UNCHANGED <<today, settings, planningSettings, objs, todos, warns, todayColumns, columns,
                 updates, budget>>

\* the pending request of command c fails with an I/O error
Reject(c) ==
  /\ Pending(c)
  /\ LET cmd == cmds[c]
         n == Len(cmd.issued)
     IN cmds' = [cmds EXCEPT ![c] =
                   [cmd EXCEPT !.results = Append(@, "fail"),
                               !.issued = @ \o Continuation(cmd, n, "fail")]]
  /\ UNCHANGED <<today, settings, planningSettings, objs, todos, doc, warns, todayColumns,
                 columns, updates, budget, dirty>>

\* todoIndex.onUpdateEvent: setTodos(todos) with fresh objects read from the
\* document, and the render that follows
OnUpdate ==
  /\ columns # <<>>
  /\ dirty
  /\ updates < MaxUpdates
  /\ updates' = updates + 1
  /\ dirty' = FALSE
  /\ UNCHANGED <<today, settings, planningSettings, doc, cmds, warns, budget>>
  /\ objs' = objs \o doc
  /\ todos' = [i \in DOMAIN doc |-> Len(objs) + i]
  /\ todayColumns' = GetTodayColumns'
  /\ columns' = GetColumns'

\* the todos the command scenarios start from on day t: shown on the board
\* (due tomorrow), in any status, with or without a started date
CommandTodoShapes(t) ==
  {TodoItem("todo-1", status,
            Attributes(due, IF status \in DoneStatuses THEN ToISODate(t - 1) ELSE <<>>,
                       FALSE, started),
            TRUE) :
     status \in Statuses, due \in {ToISODate(t + 1)},
     started \in {<<>>, ToISODate(t - 1)}}

\* the todos the round trips start from on day t
RoundTripTodoShapes(t) ==
  {TodoItem("todo-1", status,
            Attributes(due, IF status \in DoneStatuses THEN ToISODate(t - 1) ELSE <<>>,
                       selected, <<>>),
            TRUE) :
     status \in Statuses, due \in {<<>>, ToISODate(t - 1), ToISODate(t), ToISODate(t + 1)},
     selected \in BOOLEAN}

InitWith(shapes, hideEmpty, n) ==
  /\ today = FirstToday
  /\ settings \in [firstWeekday : {1}, showWeekEnds : {TRUE}, trackStartTime : BOOLEAN]
  /\ planningSettings = [DefaultPlanningSettings EXCEPT !.hideEmpty = hideEmpty]
  /\ \E todo \in shapes : objs = <<todo>>
  /\ todos = <<1>>
  /\ doc = objs
  /\ cmds = <<>>
  /\ warns = <<>>
  /\ todayColumns = <<>>
  /\ columns = <<>>
  /\ updates = 0
  /\ budget = n
  /\ dirty = FALSE

\* one board with empty columns folded away
Init == InitWith(CommandTodoShapes(FirstToday), TRUE, MaxCmds)

\* the same board, and two commands that may overlap
InitRace == InitWith(CommandTodoShapes(FirstToday), TRUE, 2)

\* a board that shows every column, and one command
InitRoundTrip == InitWith(RoundTripTodoShapes(FirstToday), FALSE, 1)

Next ==
  \/ Render
  \/ Drop
  \/ Click
  \/ MenuItemClick
  \/ \E c \in DOMAIN cmds : Resolve(c)
  \/ \E c \in DOMAIN cmds : Reject(c)
  \/ OnUpdate

Spec == Init /\ [][Next]_vars

SpecRace == InitRace /\ [][Next]_vars

SpecRoundTrip == InitRoundTrip /\ [][Next]_vars

(***************************************************************************)
(* Properties                                                              *)
(***************************************************************************)
IsRendered == columns # <<>>

DateGroups == {"daily", "weekly", "monthly", "later"}

\* the places on the board of the daily, weekly, monthly and Later columns
DateColumns == {i \in DOMAIN columns : columns[i].group \in DateGroups}

Holds(col, r) == \E j \in DOMAIN col.todos : col.todos[j] = r

Snapshot == {todos[i] : i \in DOMAIN todos}
Filtered == {r \in Snapshot : objs[r].matches}

\* the date an attribute text stands for, NoDate when absent or no date
DateOf(r, attribute) ==
  IF objs[r].attributes.defined THEN FromISO(objs[r].attributes[attribute]) ELSE NoDate

Within(d, from, to) == d # NoDate /\ (from = NoDate \/ from <= d) /\ (to = NoDate \/ d < to)

IsDone(r) == objs[r].status \in {"Complete", "Canceled"}
IsSelected(r) == objs[r].attributes.defined /\ objs[r].attributes.selected

\* C1: the ranges of the daily, weekly, monthly and Later columns are
\* pairwise disjoint and cover every date from today+1 on, so every filtered
\* todo due on or after today+1 is in exactly one of these columns.
C1_ExactlyOneBucket ==
  IsRendered =>
    /\ \A d \in (today + 1) .. LastDay :
         Cardinality({i \in DateColumns : Within(d, columns[i].from, columns[i].to)}) = 1
    /\ \A r \in Filtered :
         DateOf(r, "due") # NoDate /\ DateOf(r, "due") >= today + 1 =>
           Cardinality({i \in DateColumns : Holds(columns[i], r)}) = 1

\* the daily columns of the rendered board, in order
DailyColumns == SelectSeq(columns, LAMBDA col : col.group = "daily")

WeekEndDay(d) == ((Weekday(d) - settings.firstWeekday + 7) % 7) + 1 >= 6

\* C2 (as claimed): with showWeekEnds off, exactly 6 daily columns are
\* emitted, none on a weekend day, and the first is titled Tomorrow when
\* tomorrow is no weekend day.
C2_SixDailyBuckets ==
  IsRendered /\ ~settings.showWeekEnds =>
    /\ Len(DailyColumns) = 6
    /\ \A i \in DOMAIN DailyColumns : ~WeekEndDay(DailyColumns[i].from)
    /\ ~WeekEndDay(today + 1) => DailyColumns[1].title.text = "Tomorrow"

\* C2 (amended): with showWeekEnds off, the daily columns are, in order, the
\* days of today+1 .. today+6 that are no weekend days, 4 or 5 of them, each
\* one day long; a skipped weekend day uses up one of the 6 iterations; the
\* column of today+1, and no other, is titled Tomorrow.
C2_DailyWindow ==
  IsRendered /\ ~settings.showWeekEnds =>
    LET days == {d \in (today + 1) .. (today + 6) : ~WeekEndDay(d)}
    IN /\ Len(DailyColumns) = Cardinality(days)
       /\ Len(DailyColumns) \in {4, 5}
       /\ {DailyColumns[i].from : i \in DOMAIN DailyColumns} = days
       /\ \A i \in DOMAIN DailyColumns :
            /\ DailyColumns[i].to = DailyColumns[i].from + 1
            /\ DailyColumns[i].onTodoDropped = MoveToDate(DailyColumns[i].from)
            /\ i > 1 => DailyColumns[i - 1].from < DailyColumns[i].from
            /\ DailyColumns[i].title.text = "Tomorrow" <=> DailyColumns[i].from = today + 1

\* a board whose daily loop skipped tomorrow, a weekend day, and shows 4 days
C2_Witness ==
  /\ IsRendered /\ ~settings.showWeekEnds
  /\ WeekEndDay(today + 1)
  /\ Len(DailyColumns) = 4
  /\ DailyColumns[1].title.text # "Tomorrow"

\* C3 (as claimed): a filtered todo is in a daily, weekly, monthly or Later
\* column iff its due date is in the column's range, or it is selected and
\* either open or done with its completed date in the range.
C3_IncludeSelected ==
  IsRendered =>
    \A i \in DateColumns, r \in Filtered :
      Holds(columns[i], r) <=>
        \/ Within(DateOf(r, "due"), columns[i].from, columns[i].to)
        \/ /\ IsSelected(r)
           /\ \/ ~IsDone(r)
              \/ Within(DateOf(r, "completed"), columns[i].from, columns[i].to)

\* C3 (amended): a filtered todo is in a daily, weekly, monthly or Later
\* column iff its due date is in the column's range; the selected marker and
\* the completed date play no part, and a todo the filter rejects is in none.
C3_DueDateOnly ==
  IsRendered =>
    \A i \in DateColumns, r \in Snapshot :
      Holds(columns[i], r) <=>
        r \in Filtered /\ Within(DateOf(r, "due"), columns[i].from, columns[i].to)

\* a rendered board with an open, selected todo without due date, which is in
\* none of the daily, weekly, monthly and Later columns
C3_Witness ==
  /\ IsRendered
  /\ \E r \in Filtered :
       /\ IsSelected(r) /\ ~IsDone(r) /\ DateOf(r, "due") = NoDate
       /\ \A i \in DateColumns : ~Holds(columns[i], r)

\* C4 (as claimed): a done, selected todo whose completed date is outside
\* [today, today+1) or absent is in none of the three Today columns, whatever
\* its other attributes.
C4_DoneSelectedNeverShown ==
  IsRendered =>
    \A i \in DOMAIN todayColumns, r \in Filtered :
      IsDone(r) /\ IsSelected(r) /\ ~Within(DateOf(r, "completed"), today, today + 1)
        => ~Holds(todayColumns[i], r)

\* C4 (amended): a done, selected todo whose completed date and due date are
\* both outside [today, today+1) (or absent, or no dates) is in none of the
\* three Today columns; with its due date inside the range it is in Done.
C4_DoneSelectedOutsideRange ==
  IsRendered =>
    \A r \in Filtered :
      IsDone(r) /\ IsSelected(r) /\ ~Within(DateOf(r, "completed"), today, today + 1) =>
        IF Within(DateOf(r, "due"), today, today + 1)
        THEN Holds(todayColumns[3], r) /\ ~Holds(todayColumns[1], r) /\ ~Holds(todayColumns[2], r)
        ELSE \A i \in DOMAIN todayColumns : ~Holds(todayColumns[i], r)

\* a rendered board with a done, selected todo completed yesterday and due
\* another day, which the Today columns leave out
C4_Witness ==
  /\ IsRendered
  /\ \E r \in Filtered :
       /\ IsDone(r) /\ IsSelected(r)
       /\ DateOf(r, "completed") = today - 1
       /\ DateOf(r, "due") = today + 1
       /\ \A i \in DOMAIN todayColumns : ~Holds(todayColumns[i], r)

DropKinds == {"moveToDate", "removeDate", "moveToDateAndStatus"}

\* C5: a drop command whose todoId the snapshot does not hold issues no
\* request and is reported with a warning.
C5_UnknownIdReported ==
  LET unknown == {c \in DOMAIN cmds : cmds[c].kind \in DropKinds /\ cmds[c].todo = NoRef}
  IN /\ \A c \in unknown : cmds[c].issued = <<>>
     /\ Len(warns) = Cardinality(unknown)
     /\ \A c \in unknown : \E w \in DOMAIN warns : warns[w] = cmds[c].todoId

MoveStatusCmds ==
  {c \in DOMAIN cmds : cmds[c].kind = "moveToDateAndStatus" /\ cmds[c].todo # NoRef}

\* C6: a move-with-status command issues its requests in the order due-date
\* write, status write, started-date write; each is issued only once every
\* earlier one has completed, and the started-date write is issued exactly
\* when the first two have succeeded, trackStartTime is on, the todo the
\* command holds has no started date and the target status is InProgress.
C6_SubRequestOrder ==
  \A c \in MoveStatusCmds :
    LET cmd == cmds[c]
        n == Len(cmd.issued)
        wanted == /\ settings.trackStartTime
                  /\ objs[cmd.todo].attributes.started = <<>>
                  /\ cmd.status = "InProgress"
    IN /\ n \in 1 .. 3
       /\ Len(cmd.results) \in {n - 1, n}
       /\ cmd.issued[1] = [op |-> "updateAttribute", attribute |-> "due",
                           value |-> ToISODate(cmd.date), status |-> ""]
       /\ n >= 2 => cmd.issued[2].op = "updateTodoStatus"
       /\ n >= 3 => cmd.issued[3] = [op |-> "updateAttribute", attribute |-> "started",
                                     value |-> ToISODate(today), status |-> ""]
       /\ n = 3 => wanted
       /\ Len(cmd.results) >= 2 /\ cmd.results[1] = "ok" /\ cmd.results[2] = "ok" /\ wanted
            => n = 3

\* a move-with-status command whose three requests have all completed
C6_Witness ==
  \E c \in MoveStatusCmds : Len(cmds[c].issued) = 3 /\ cmds[c].results = <<"ok", "ok", "ok">>

\* C7: once a request of a move-with-status command has failed, the command
\* issues no further request.
C7_NoRequestAfterFailure ==
  \A c \in MoveStatusCmds :
    \A k \in DOMAIN cmds[c].results :
      cmds[c].results[k] = "fail" => Len(cmds[c].issued) = k

\* a move to In progress that would ask for a started date, whose due-date
\* write failed
C7_Witness ==
  \E c \in MoveStatusCmds :
    /\ cmds[c].results = <<"fail">>
    /\ cmds[c].status = "InProgress"
    /\ settings.trackStartTime
    /\ objs[cmds[c].todo].attributes.started = <<>>

\* C8: once every request of a drop command has been written and the
\* snapshot has been refreshed, the todo is in the column it was dropped on.
C8_RoundTrip ==
  \A c \in DOMAIN cmds :
    LET cmd == cmds[c]
    IN /\ cmd.kind \in DropKinds /\ cmd.todo # NoRef
       /\ Len(cmd.results) = Len(cmd.issued)
       /\ \A k \in DOMAIN cmd.results : cmd.results[k] = "ok"
       /\ updates > 0 /\ ~dirty
       => Holds(Board[cmd.column], FindTodo(cmd.todoId))

\* C9: a click that is not default-prevented issues exactly one status write,
\* of Todo when the todo was Complete or Canceled and of Complete otherwise; a
\* default-prevented click issues nothing.
C9_ToggleFlips ==
  \A c \in DOMAIN cmds :
    cmds[c].kind = "toggle" =>
      IF cmds[c].prevented THEN cmds[c].issued = <<>>
      ELSE /\ Len(cmds[c].issued) = 1
           /\ cmds[c].issued[1].op = "updateTodoStatus"
           /\ cmds[c].issued[1].status =
                (IF cmds[c].prev \in {"Complete", "Canceled"} THEN "Todo" ELSE "Complete")

\* a click on a canceled todo, which asked for Todo
C9_Witness ==
  \E c \in DOMAIN cmds :
    /\ cmds[c].kind = "toggle" /\ ~cmds[c].prevented
    /\ cmds[c].prev = "Canceled"
    /\ cmds[c].issued[1].status = "Todo"

\* C10: every status write a command issues writes that command's own target
\* status.
C10_OwnTargetStatus ==
  \A c \in DOMAIN cmds :
    \A k \in DOMAIN cmds[c].issued :
      cmds[c].issued[k].op = "updateTodoStatus" => cmds[c].issued[k].status = cmds[c].status

====
